---- MODULE Spec2Model ----
(***************************************************************************)
(* NutriCare bot (src/bot.py, src/models.py): the malnutrition classifier  *)
(* get_status and the Telegram conversation that validates the inputs,     *)
(* calls the classifier and persists the Measurement.                      *)
(*                                                                         *)
(* Numbers.  A Python float-or-None is a tagged record: None, NaN or       *)
(* Num(v) with v an integer.  MUAC is in millimetres, weight in kg, height *)
(* in cm.  A z-score is held in tenths (Num(-25) is z = -2.5), so the      *)
(* thresholds -3 and -2 of get_status are -30 and -20.                     *)
(*                                                                         *)
(* Outside the repository.  Calculator.bmifa (pygrowup) either returns a   *)
(* z-score or raises; which of the two, and the value, is a choice of the  *)
(* step (ProviderOutcomes).  The commits of the SQLAlchemy session         *)
(* succeed.  Updates are handled one at a time (the Application is built   *)
(* without concurrent_updates), so a handler is one step.                  *)
(*                                                                         *)
(* Not kept: Measurement.date, the text of the names (a non-empty name is  *)
(* "name"), and the wording of the messages beyond a short label.          *)
(***************************************************************************)
EXTENDS Integers, Sequences, FiniteSets, TLC

VARIABLES
    conv,          \* ConversationHandler state of each conversation: the key
                   \* is (chat, user), the default per_chat and per_user
    user_data,     \* context.user_data of each user
    users,         \* table users: the telegram ids that have a User row
    children,      \* table children, in id order (id = index)
    measurements,  \* table measurements, in id order
    reply,         \* what the handler of the last update sent back
    last_call,     \* the last run of calculate_and_save: what the provider did
                   \* and the call of get_status it made
    last_text,     \* the text of the update just handled (NoText for a button
                   \* or a command)
    fn_pc,         \* classifier harness: "idle", "ready" or "done"
    fn_in,         \* classifier harness: the inputs drawn
    fn_out         \* classifier harness: the statuses returned

vars == <<conv, user_data, users, children, measurements, reply, last_call,
          last_text, fn_pc, fn_in, fn_out>>

botVars == <<conv, user_data, users, children, measurements, reply, last_call,
            last_text>>
fnVars  == <<fn_pc, fn_in, fn_out>>

(***************************************************************************)
(* Values                                                                  *)
(***************************************************************************)
None == [t |-> "none"]
NaN == [t |-> "nan"]
Num(v) == [t |-> "num", v |-> v]
Str(s) == [t |-> "str", s |-> s]
IsNum(x) == x.t = "num"

\* Python's float comparisons: every comparison with NaN is False.
Lt(x, n) == IsNum(x) /\ x.v < n
Le(x, n) == IsNum(x) /\ x.v <= n
Gt(x, n) == IsNum(x) /\ x.v > n

Statuses == {"SAM", "MAM", "NORMAL"}

\* src/bot.py:31-35
RECOMMENDATIONS ==
    [s \in Statuses |->
        CASE s = "SAM" -> "urgent referral"
          [] s = "MAM" -> "supplementary feeding"
          [] s = "NORMAL" -> "routine care"]

(***************************************************************************)
(* get_status (src/bot.py:59-75)                                           *)
(***************************************************************************)
\* the thresholds of lines 61-69, z-scores in tenths
Z_SAM == -30
Z_MAM == -20
MUAC_SAM == 115
MUAC_MAM == 125
AGE_BAND == 6

\* Variant of bmi_status_under6: `bmi_z is None or bmi_z <= -3`
bmi_status_under6_none_low(bmi_z) ==
    IF bmi_z = None \/ Le(bmi_z, Z_SAM) THEN "SAM"
    ELSE IF Gt(bmi_z, Z_SAM) /\ Lt(bmi_z, Z_MAM) THEN "MAM"
    ELSE "NORMAL"

\* lines 61-66: the tier of the branch age_months < 6
bmi_status_under6(bmi_z) ==
    IF bmi_z # None /\ Le(bmi_z, Z_SAM) THEN "SAM"
    ELSE IF bmi_z # None /\ Gt(bmi_z, Z_SAM) /\ Lt(bmi_z, Z_MAM) THEN "MAM"
    ELSE "NORMAL"

\* Variant of muac_status: `<=` for `<`
muac_status_inclusive(muac) ==
    IF Le(muac, MUAC_SAM) THEN "SAM"
    ELSE IF Le(muac, MUAC_MAM) THEN "MAM"
    ELSE "NORMAL"

\* line 68
muac_status(muac) ==
    IF Lt(muac, MUAC_SAM) THEN "SAM"
    ELSE IF Lt(muac, MUAC_MAM) THEN "MAM"
    ELSE "NORMAL"

\* Variant of bmi_status: `<= -2` for `< -2`
bmi_status_inclusive(bmi_z) ==
    IF bmi_z # None /\ Le(bmi_z, Z_SAM) THEN "SAM"
    ELSE IF bmi_z # None /\ Le(bmi_z, Z_MAM) THEN "MAM"
    ELSE "NORMAL"

\* line 69
bmi_status(bmi_z) ==
    IF bmi_z # None /\ Le(bmi_z, Z_SAM) THEN "SAM"
    ELSE IF bmi_z # None /\ Lt(bmi_z, Z_MAM) THEN "MAM"
    ELSE "NORMAL"

\* Variant of worst_of: `and` for `or`
worst_of_and(m, b) ==
    IF m = "SAM" /\ b = "SAM" THEN "SAM"
    ELSE IF m = "MAM" /\ b = "MAM" THEN "MAM"
    ELSE "NORMAL"

\* Variant of worst_of: the middle tier spelt 'Mam'
worst_of_misspelt(m, b) ==
    IF m = "SAM" \/ b = "SAM" THEN "SAM"
    ELSE IF m = "MAM" \/ b = "MAM" THEN "Mam"
    ELSE "NORMAL"

\* lines 70-75
worst_of(m, b) ==
    IF m = "SAM" \/ b = "SAM" THEN "SAM"
    ELSE IF m = "MAM" \/ b = "MAM" THEN "MAM"
    ELSE "NORMAL"

\* Variant of get_status: the MUAC tier is used at every age when MUAC is given
get_status_any_age(muac, bmi_z, age_months) ==
    IF muac = None
    THEN bmi_status_under6(bmi_z)
    ELSE worst_of(muac_status(muac), bmi_status(bmi_z))

\* Variant of get_status: the MUAC tier is computed before the age test
get_status_eager_muac(muac, bmi_z, age_months) ==
    IF muac = None THEN "TypeError"
    ELSE IF age_months < AGE_BAND THEN bmi_status_under6(bmi_z)
    ELSE worst_of(muac_status(muac), bmi_status(bmi_z))

\* `None < 115` raises TypeError: the result "TypeError" stands for the raise.
get_status(muac, bmi_z, age_months) ==
    IF age_months < AGE_BAND
    THEN bmi_status_under6(bmi_z)
    ELSE IF muac = None THEN "TypeError"
         ELSE worst_of(muac_status(muac), bmi_status(bmi_z))

(***************************************************************************)
(* The classifier on its own: the inputs are drawn, then get_status is     *)
(* applied to them (twice, the second time with another MUAC), and so is   *)
(* the z-score tier of each of its two age branches.                       *)
(***************************************************************************)
FnAges == {0, 3, 5, 6, 24, 30, 60}
FnMuacs == {None, NaN} \cup {Num(v) : v \in {1, 110, 114, 115, 118, 124, 125, 130, 300}}
FnZs == {None} \cup {Num(v) : v \in {-32, -31, -30, -29, -25, -21, -20, -19, -10, 5}}

NoInput == [muac |-> None, muac2 |-> None, bmi_z |-> None, age_months |-> 0]
NoOutput == [status |-> "", status2 |-> "", z_under6 |-> "", z_from6 |-> ""]

Classify ==
    /\ fn_pc = "ready"
    /\ fn_out' = [status  |-> get_status(fn_in.muac, fn_in.bmi_z, fn_in.age_months),
                  status2 |-> get_status(fn_in.muac2, fn_in.bmi_z, fn_in.age_months),
                  z_under6 |-> bmi_status_under6(fn_in.bmi_z),
                  z_from6 |-> bmi_status(fn_in.bmi_z)]
    /\ fn_pc' = "done"
    /\ UNCHANGED <<fn_in, botVars>>

(***************************************************************************)
(* The bot: tables, user_data and texts                                    *)
(***************************************************************************)
Users == {1, 2}          \* telegram ids
SoloUsers == {1}         \* the users that send updates in Spec
Chats == {1, 2}          \* chat ids: a user's private chat with the bot and a group
SoloChats == {1}         \* the chats the updates of Spec come from
MaxChildren == 2         \* rows of table children
MaxMeas == 2             \* rows of table measurements

ConvStates == {"END", "REGISTER_CAREGIVER", "REGISTER_CHILD_NAME", "REGISTER_AGE",
               "REGISTER_SEX", "INPUT_WEIGHT", "INPUT_HEIGHT", "INPUT_MUAC"}

\* context.user_data: a dict; Absent marks a key that is not in it
Absent == [t |-> "absent"]
Keys == {"caregiver_name", "child_name", "age_months", "sex",
         "child_id", "weight", "height", "muac"}
EmptyData == [k \in Keys |-> Absent]

\* A text message: letters, whitespace only, the word nan, or a decimal integer
Word == [k |-> "word"]
Blank == [k |-> "blank"]
NanText == [k |-> "nan"]
NoText == [k |-> "none"]
Digits(v) == [k |-> "digits", v |-> v]

ValueError == [t |-> "ValueError"]
\* int(text), float(text) and text.strip()
py_int(text) == IF text.k = "digits" THEN Num(text.v) ELSE ValueError
py_float(text) ==
    IF text.k = "digits" THEN Num(text.v)
    ELSE IF text.k = "nan" THEN NaN
    ELSE ValueError
py_strip(text) == IF text.k = "blank" THEN "" ELSE "name"

NameTexts == {Word}
AgeTexts == {Word, NanText, Digits(-1), Digits(0), Digits(60), Digits(61)}
WeightTexts == {Word, Digits(0), Digits(50), Digits(51)}
HeightTexts == {Word, Digits(0), Digits(150), Digits(151)}
MuacTexts == {Word, NanText, Digits(0), Digits(114), Digits(301)}

\* Calculator.bmifa (pygrowup): returns a z-score or raises
ProviderOutcomes == {[raised |-> TRUE, z |-> 0]} \cup
                    {[raised |-> FALSE, z |-> v] : v \in {-25}}

Msg(u, text) == [to |-> u, text |-> text, status |-> "", rec |-> ""]
NoReply == [to |-> 0, text |-> "", status |-> "", rec |-> ""]
NoCall == [user |-> 0, called |-> FALSE, raised |-> FALSE]

\* session.get(Child, id)
HasChild(id) == IsNum(id) /\ id.v \in 1..Len(children)
\* user.children, as the ids in id order
ChildrenOf(u) == SelectSeq([i \in 1..Len(children) |-> i], LAMBDA i : children[i].user_id = u)
\* child.measurements
MeasurementsOf(cid) == SelectSeq(measurements, LAMBDA m : m.child_id = cid)

(***************************************************************************)
(* f-strings.  Lines 221 and 429 write `{x:.2f if x ... else 'N/A'}`:      *)
(* everything after the colon is the format spec, so the value is          *)
(* formatted with a spec that is not `.2f`.  float.__format__ raises       *)
(* ValueError on it and NoneType.__format__ raises TypeError on any        *)
(* non-empty spec.                                                         *)
(***************************************************************************)
SUMMARY_BMI_Z_SPEC == ".2f if m.bmi_z else 'N/A'"
RESULT_BMI_Z_SPEC == ".2f if bmi_z is not None else 'N/A'"

py_format(value, format_spec) ==
    IF value = None THEN "TypeError"
    ELSE IF format_spec = ".2f" THEN "ok"
    ELSE "ValueError"

(***************************************************************************)
(* handle_action (src/bot.py:204-263): what it returns and replies.        *)
(* ret = "None" is Python's None, which leaves the conversation state as   *)
(* it is.                                                                  *)
(***************************************************************************)
handle_action(u, ud, action) ==
    IF action = "add_meas"
    THEN [ret |-> "INPUT_WEIGHT", reply |-> Msg(u, "Enter weight")]
    ELSE IF action = "summarize"
    THEN IF ~HasChild(ud["child_id"])
         THEN [ret |-> "END", reply |-> Msg(u, "Child not found. Try again.")]
         ELSE LET meas == MeasurementsOf(ud["child_id"].v) IN
              IF meas = << >>
              THEN [ret |-> "END", reply |-> Msg(u, "Summary: no measurements yet")]
              ELSE IF \E i \in 1..Len(meas) :
                         i > Len(meas) - 5 /\ py_format(meas[i].bmi_z, SUMMARY_BMI_Z_SPEC) # "ok"
              THEN [ret |-> "END", reply |-> Msg(u, "Error fetching summary")]
              ELSE [ret |-> "END",
                    reply |-> [to |-> u, text |-> "Summary",
                               status |-> meas[Len(meas)].status,
                               rec |-> RECOMMENDATIONS[meas[Len(meas)].status]]]
    ELSE IF action = "export"
    THEN IF ~HasChild(ud["child_id"]) \/ MeasurementsOf(ud["child_id"].v) = << >>
         THEN [ret |-> "END", reply |-> Msg(u, "No data to export")]
         ELSE [ret |-> "END", reply |-> Msg(u, "Data exported successfully")]
    ELSE [ret |-> "None", reply |-> NoReply]

(***************************************************************************)
(* button_handler (src/bot.py:98-202): the state it returns, the user_data *)
(* it leaves and the reply, for callback data `data` = [d, id].            *)
(***************************************************************************)
ChildActions == {"select_child_", "add_meas_child_", "summarize_child_", "export_child_"}
MenuActions == {"add_meas", "summarize", "export"}
PlainButtons == {"register", "view_children", "add_another_child", "back_main",
                 "sex_male", "sex_female"} \cup MenuActions
Buttons == {[d |-> b, id |-> 0] : b \in PlainButtons} \cup
           {[d |-> b, id |-> k] : b \in ChildActions, k \in 1..MaxChildren}

\* start (lines 77-96), as called by back_main and by /start
start_reply(u) ==
    IF u \in users THEN Msg(u, "Welcome") ELSE Msg(u, "Welcome, register")

\* Variant of OwnChild: the child exists, its owner is not compared
OwnChild_any(u, id) == id \in 1..Len(children)

\* lines 126-127 and 170-171
OwnChild(u, id) == id \in 1..Len(children) /\ children[id].user_id = u

\* data.split("_"): the number of parts of the *_child_<id> data (line 163)
SplitParts(d) == IF d = "add_meas_child_" THEN 4 ELSE 3
\* parts[0] (line 168)
SplitFirst(d) ==
    IF d = "add_meas_child_" THEN "add"
    ELSE IF d = "summarize_child_" THEN "summarize"
    ELSE "export"

button_handler(u, data) ==
    LET ud == user_data[u]
        d == data.d
        own == ChildrenOf(u)
    IN
    IF d = "register"
    THEN \* line 107 also sets user_data['state'], a key nothing reads: not kept
         [ret |-> "REGISTER_CAREGIVER", ud |-> ud,
          reply |-> Msg(u, "Enter your name (caregiver)")]
    ELSE IF d = "view_children"
    THEN IF u \notin users
         THEN [ret |-> "END", ud |-> ud, reply |-> Msg(u, "No account found")]
         ELSE [ret |-> "END", ud |-> ud, reply |-> Msg(u, "Your Children")]
    ELSE IF d = "select_child_"
    THEN IF ~OwnChild(u, data.id)
         THEN [ret |-> "END", ud |-> ud, reply |-> Msg(u, "Child not found or does not belong to you")]
         ELSE [ret |-> "END", ud |-> [ud EXCEPT !["child_id"] = Num(data.id)],
               reply |-> Msg(u, "Selected child")]
    ELSE IF d \in MenuActions
    THEN IF u \notin users \/ own = << >>
         THEN [ret |-> "END", ud |-> ud, reply |-> Msg(u, "Register at least one child first")]
         ELSE IF Len(own) = 1
         THEN LET ud1 == [ud EXCEPT !["child_id"] = Num(own[1])]
                  r == handle_action(u, ud1, d)
              IN [ret |-> r.ret, ud |-> ud1, reply |-> r.reply]
         ELSE [ret |-> "END", ud |-> ud, reply |-> Msg(u, "Select a child")]
    ELSE IF d \in {"add_meas_child_", "summarize_child_", "export_child_"}
    THEN IF SplitParts(d) # 4
         THEN [ret |-> "END", ud |-> ud, reply |-> Msg(u, "Invalid action data")]
         ELSE IF ~OwnChild(u, data.id)
         THEN [ret |-> "END", ud |-> ud, reply |-> Msg(u, "Child not found or does not belong to you")]
         ELSE LET ud1 == [ud EXCEPT !["child_id"] = Num(data.id)]
                  r == handle_action(u, ud1, SplitFirst(d))
              IN [ret |-> r.ret, ud |-> ud1, reply |-> r.reply]
    ELSE IF d = "add_another_child"
    THEN [ret |-> "REGISTER_CHILD_NAME", ud |-> ud, reply |-> Msg(u, "Enter child name")]
    ELSE IF d = "back_main"
    THEN [ret |-> "END", ud |-> ud, reply |-> start_reply(u)]
    ELSE [ret |-> "END", ud |-> ud, reply |-> Msg(u, "Invalid action")]

\* ConversationHandler: a handler's return value is the new state; None keeps it
NewState(old, ret) == IF ret = "None" THEN old ELSE ret

(***************************************************************************)
(* calculate_and_save (src/bot.py:393-437): the table measurements it      *)
(* leaves, its reply and a record of the run: whether Calculator.bmifa     *)
(* raised, whether get_status was called, and with what.  prov is what     *)
(* Calculator.bmifa does on this call.  The caller clears user_data (the   *)
(* finally of line 437).                                                   *)
(***************************************************************************)
\* A Float column of the SQLite database (src/models.py:30-33, engine of
\* src/bot.py:26): SQLite has no NaN, a NaN bound to a REAL column is stored
\* as NULL.
sqlite_real(x) == IF x = NaN THEN None ELSE x

\* src/models.py:26-35: the row of a Measurement as the table holds it
Measurement(child_id, weight, height, muac, bmi_z, status) ==
    [child_id |-> child_id, weight |-> sqlite_real(weight),
     height |-> sqlite_real(height), muac |-> sqlite_real(muac),
     bmi_z |-> sqlite_real(bmi_z), status |-> status]

\* Variant of persist: one row per child, a later measurement of the child
\* takes the place of the earlier one
persist_replacing(meas) ==
    IF \E i \in 1..Len(measurements) : measurements[i].child_id = meas.child_id
    THEN [i \in 1..Len(measurements) |->
             IF measurements[i].child_id = meas.child_id THEN meas
             ELSE measurements[i]]
    ELSE Append(measurements, meas)

\* lines 425-426: session.add(meas); session.commit()
persist(meas) == Append(measurements, meas)

ErrorSavingText == "Error saving measurement. Please try again."
ErrorSaving(u) == Msg(u, ErrorSavingText)
NotCalled(u) == [user |-> u, called |-> FALSE, raised |-> FALSE]

\* Variant of calculate_and_save: no try around the provider (lines 406-413),
\* so its raise reaches the except of line 432
calculate_and_save_propagating(u, ud, muac, prov) ==
    IF ud["child_id"] = Absent \/ ~HasChild(ud["child_id"])
       \/ ud["weight"] = Absent \/ ud["height"] = Absent
    THEN [meas |-> measurements, reply |-> ErrorSaving(u), call |-> NotCalled(u)]
    ELSE IF prov.raised
    THEN [meas |-> measurements, reply |-> ErrorSaving(u),
          call |-> [user |-> u, called |-> FALSE, raised |-> TRUE]]
    ELSE
    LET child_id == ud["child_id"].v
        age_months == children[child_id].age_months
        bmi_z == Num(prov.z)
        status == get_status(muac, bmi_z, age_months)
    IN
    [meas |-> IF status = "TypeError" THEN measurements
              ELSE persist(Measurement(child_id, ud["weight"], ud["height"],
                                       muac, bmi_z, status)),
     reply |-> ErrorSaving(u),
     call |-> [user |-> u, called |-> TRUE, raised |-> FALSE,
               child_id |-> child_id, muac |-> muac, bmi_z |-> bmi_z,
               age_months |-> age_months, weight |-> ud["weight"],
               height |-> ud["height"], status |-> status]]

calculate_and_save(u, ud, muac, prov) ==
    IF ud["child_id"] = Absent
    THEN [meas |-> measurements, reply |-> ErrorSaving(u), call |-> NotCalled(u)]
    ELSE IF ~HasChild(ud["child_id"])
    THEN [meas |-> measurements, call |-> NotCalled(u),
          reply |-> Msg(u, "Child not found. Please select a child again.")]
    ELSE IF ud["weight"] = Absent \/ ud["height"] = Absent
    THEN [meas |-> measurements, reply |-> ErrorSaving(u), call |-> NotCalled(u)]
    ELSE
    LET child_id == ud["child_id"].v
        age_months == children[child_id].age_months
        weight == ud["weight"]
        height == ud["height"]
        \* lines 405-413: a raise of the provider leaves bmi_z = None
        bmi_z == IF prov.raised THEN None ELSE Num(prov.z)
        status == get_status(muac, bmi_z, age_months)
        call == [user |-> u, called |-> TRUE, raised |-> prov.raised,
                 child_id |-> child_id, muac |-> muac, bmi_z |-> bmi_z,
                 age_months |-> age_months, weight |-> weight, height |-> height,
                 status |-> status]
        meas == Measurement(child_id, weight, height, muac, bmi_z, status)
    IN
    IF status = "TypeError"
    THEN \* get_status raised: nothing is added (line 432)
         [meas |-> measurements, reply |-> ErrorSaving(u), call |-> call]
    ELSE IF status \notin DOMAIN RECOMMENDATIONS
            \/ py_format(bmi_z, RESULT_BMI_Z_SPEC) # "ok"
    THEN \* lines 428-429 raise after the commit of line 426
         [meas |-> persist(meas), reply |-> ErrorSaving(u), call |-> call]
    ELSE [meas |-> persist(meas), call |-> call,
          reply |-> [to |-> u, text |-> "Results", status |-> status,
                     rec |-> RECOMMENDATIONS[status]]]

(***************************************************************************)
(* The updates.  main (src/bot.py:457-473) routes an update of user u by   *)
(* the state of u's conversation.                                          *)
(***************************************************************************)
\* Variant of SetData: one dictionary for all users instead of a user_data
\* per user
SetData_shared(u, ud) == user_data' = [v \in Users |-> ud]

SetData(u, ud) == user_data' = [user_data EXCEPT ![u] = ud]
SetConv(c, u, st) == conv' = [conv EXCEPT ![c][u] = st]

\* /start: an entry point, so taken only when no conversation is running
cmd_start(c, u) ==
    /\ last_text' = NoText
    /\ conv[c][u] = "END"
    /\ reply' = start_reply(u)
    /\ UNCHANGED <<conv, user_data, users, children, measurements, last_call, fnVars>>

IsFallback(data) == data.d \in {"add_another_child", "back_main"}
IsSex(data) == data.d \in {"sex_male", "sex_female"}

\* line 458: with no conversation running every button is an entry point
entry_point(c, u, data) ==
    /\ last_text' = NoText
    /\ conv[c][u] = "END"
    /\ LET r == button_handler(u, data) IN
          /\ SetConv(c, u, NewState(conv[c][u], r.ret))
          /\ SetData(u, r.ud)
          /\ reply' = r.reply
    /\ UNCHANGED <<users, children, measurements, last_call, fnVars>>

\* line 468: in a state, add_another_child and back_main are fallbacks
fallback(c, u, data) ==
    /\ last_text' = NoText
    /\ conv[c][u] # "END"
    /\ IsFallback(data)
    /\ LET r == button_handler(u, data) IN
          /\ SetConv(c, u, NewState(conv[c][u], r.ret))
          /\ SetData(u, r.ud)
          /\ reply' = r.reply
    /\ UNCHANGED <<users, children, measurements, last_call, fnVars>>

\* line 473: a button the ConversationHandler does not take goes to the
\* handler registered after it; what button_handler returns is dropped
global_button(c, u, data) ==
    /\ last_text' = NoText
    /\ conv[c][u] # "END"
    /\ ~IsFallback(data)
    /\ ~(conv[c][u] = "REGISTER_SEX" /\ IsSex(data))
    /\ LET r == button_handler(u, data) IN
          /\ SetData(u, r.ud)
          /\ reply' = r.reply
    /\ UNCHANGED <<conv, users, children, measurements, last_call, fnVars>>

\* lines 265-271
register_caregiver(c, u, text) ==
    /\ last_text' = text
    /\ conv[c][u] = "REGISTER_CAREGIVER"
    /\ LET name == py_strip(text) IN
          /\ SetData(u, [user_data[u] EXCEPT !["caregiver_name"] = Str(name)])
          /\ IF name = ""
             THEN /\ reply' = Msg(u, "Invalid name. Please enter a valid name")
                  /\ UNCHANGED conv
             ELSE /\ reply' = Msg(u, "Enter child name")
                  /\ SetConv(c, u, "REGISTER_CHILD_NAME")
    /\ UNCHANGED <<users, children, measurements, last_call, fnVars>>

\* lines 273-279
register_child_name(c, u, text) ==
    /\ last_text' = text
    /\ conv[c][u] = "REGISTER_CHILD_NAME"
    /\ LET name == py_strip(text) IN
          /\ SetData(u, [user_data[u] EXCEPT !["child_name"] = Str(name)])
          /\ IF name = ""
             THEN /\ reply' = Msg(u, "Invalid name. Enter child name")
                  /\ UNCHANGED conv
             ELSE /\ reply' = Msg(u, "Enter age in months (0-60)")
                  /\ SetConv(c, u, "REGISTER_AGE")
    /\ UNCHANGED <<users, children, measurements, last_call, fnVars>>

\* lines 283-285
valid_age(age) == age # ValueError /\ 0 <= age.v /\ age.v <= 60

\* lines 281-295
register_age(c, u, text) ==
    /\ last_text' = text
    /\ conv[c][u] = "REGISTER_AGE"
    /\ LET age == py_int(text) IN
          IF ~valid_age(age)
          THEN /\ reply' = Msg(u, "Please enter a valid number (0-60)")
               /\ UNCHANGED <<conv, user_data>>
          ELSE /\ SetData(u, [user_data[u] EXCEPT !["age_months"] = age])
               /\ reply' = Msg(u, "Select sex")
               /\ SetConv(c, u, "REGISTER_SEX")
    /\ UNCHANGED <<users, children, measurements, last_call, fnVars>>

\* lines 297-342; line 463 routes only the sex_ buttons of REGISTER_SEX here
register_sex(c, u, data) ==
    /\ last_text' = NoText
    /\ conv[c][u] = "REGISTER_SEX"
    /\ IsSex(data)
    /\ Len(children) < MaxChildren
    /\ LET ud == user_data[u]
           sex == IF data.d = "sex_male" THEN "male" ELSE "female"
       IN
          /\ users' = users \cup {u}
          /\ IF ud["child_name"] = Absent \/ ud["age_months"] = Absent
             THEN /\ UNCHANGED children
                  /\ reply' = Msg(u, "Error registering child")
             ELSE /\ children' = Append(children,
                        [user_id |-> u, child_name |-> ud["child_name"].s,
                         age_months |-> ud["age_months"].v, sex |-> sex])
                  /\ reply' = Msg(u, "Child Registered Successfully")
    /\ SetData(u, EmptyData)
    /\ SetConv(c, u, "END")
    /\ UNCHANGED <<measurements, last_call, fnVars>>

\* lines 346-348, 358-360 and 383-385: float(text), then the range test.
\* Both comparisons are False for NaN, so float("nan") passes it.
valid_weight(weight) == weight # ValueError /\ ~(Le(weight, 0) \/ Gt(weight, 50))
valid_height(height) == height # ValueError /\ ~(Le(height, 0) \/ Gt(height, 150))
valid_muac(muac) == muac # ValueError /\ ~(Le(muac, 0) \/ Gt(muac, 300))

\* lines 344-354
input_weight(c, u, text) ==
    /\ last_text' = text
    /\ conv[c][u] = "INPUT_WEIGHT"
    /\ LET weight == py_float(text) IN
          IF ~valid_weight(weight)
          THEN /\ reply' = Msg(u, "Enter valid weight (kg)")
               /\ UNCHANGED <<conv, user_data>>
          ELSE /\ SetData(u, [user_data[u] EXCEPT !["weight"] = weight])
               /\ reply' = Msg(u, "Enter height/length")
               /\ SetConv(c, u, "INPUT_HEIGHT")
    /\ UNCHANGED <<users, children, measurements, last_call, fnVars>>

\* Variant of needs_muac: the test of line 372 turned round
needs_muac_inverted(age_months) == age_months < AGE_BAND

\* line 372: a child of 6 months or more is asked for the MUAC
needs_muac(age_months) == age_months >= AGE_BAND

\* lines 356-379; prov is what the growth-reference provider does if it is called
input_height(c, u, text, prov) ==
    /\ last_text' = text
    /\ conv[c][u] = "INPUT_HEIGHT"
    /\ LET height == py_float(text)
           ud == [user_data[u] EXCEPT !["height"] = height]
       IN
          IF ~valid_height(height)
          THEN /\ reply' = Msg(u, "Enter valid height (cm)")
               /\ UNCHANGED <<conv, user_data, measurements, last_call>>
          ELSE IF ud["child_id"] = Absent
          THEN \* KeyError leaves the handler: error_handler (lines 439-448) replies
               /\ reply' = Msg(u, "An unexpected error occurred")
               /\ SetData(u, ud)
               /\ UNCHANGED <<conv, measurements, last_call>>
          ELSE IF ~HasChild(ud["child_id"])
          THEN /\ reply' = Msg(u, "Child not found. Please select a child again.")
               /\ SetData(u, ud)
               /\ SetConv(c, u, "END")
               /\ UNCHANGED <<measurements, last_call>>
          ELSE IF needs_muac(children[ud["child_id"].v].age_months)
          THEN /\ reply' = Msg(u, "Enter MUAC")
               /\ SetData(u, ud)
               /\ SetConv(c, u, "INPUT_MUAC")
               /\ UNCHANGED <<measurements, last_call>>
          ELSE /\ Len(measurements) < MaxMeas
               /\ LET r == calculate_and_save(u, ud, None, prov) IN
                     /\ measurements' = r.meas
                     /\ reply' = r.reply
                     /\ last_call' = r.call
               /\ SetData(u, EmptyData)
               /\ SetConv(c, u, "END")
    /\ UNCHANGED <<users, children, fnVars>>

\* lines 381-391
input_muac(c, u, text, prov) ==
    /\ last_text' = text
    /\ conv[c][u] = "INPUT_MUAC"
    /\ LET muac == py_float(text)
           ud == [user_data[u] EXCEPT !["muac"] = muac]
       IN
          IF ~valid_muac(muac)
          THEN /\ reply' = Msg(u, "Enter valid MUAC (mm)")
               /\ UNCHANGED <<conv, user_data, measurements, last_call>>
          ELSE /\ Len(measurements) < MaxMeas
               /\ LET r == calculate_and_save(u, ud, muac, prov) IN
                     /\ measurements' = r.meas
                     /\ reply' = r.reply
                     /\ last_call' = r.call
               /\ SetData(u, EmptyData)
               /\ SetConv(c, u, "END")
    /\ UNCHANGED <<users, children, fnVars>>

(***************************************************************************)
(* Specifications                                                          *)
(***************************************************************************)
Init ==
    /\ conv = [c \in Chats |-> [u \in Users |-> "END"]]
    /\ user_data = [u \in Users |-> EmptyData]
    /\ users = {}
    /\ children = << >>
    /\ measurements = << >>
    /\ reply = NoReply
    /\ last_call = NoCall
    /\ last_text = NoText
    /\ fn_pc = "idle"
    /\ fn_in = NoInput
    /\ fn_out = NoOutput

Next ==
    \E c \in SoloChats, u \in SoloUsers :
        \/ cmd_start(c, u)
        \/ \E data \in Buttons :
              \/ entry_point(c, u, data)
              \/ fallback(c, u, data)
              \/ global_button(c, u, data)
              \/ register_sex(c, u, data)
        \/ \E text \in NameTexts :
              \/ register_caregiver(c, u, text)
              \/ register_child_name(c, u, text)
        \/ \E text \in AgeTexts : register_age(c, u, text)
        \/ \E text \in WeightTexts : input_weight(c, u, text)
        \/ \E text \in HeightTexts, prov \in ProviderOutcomes : input_height(c, u, text, prov)
        \/ \E text \in MuacTexts, prov \in ProviderOutcomes : input_muac(c, u, text, prov)

Spec == Init /\ [][Next]_vars

\* One caregiver who writes to the bot in two chats (the private chat and a
\* group the bot is in).  The caregiver has registered and has one child of 60
\* months, as the registration flow of Spec leaves it; a second child can be
\* registered.  Each input set is cut down to one accepted text.
ChatButtons ==
    {[d |-> b, id |-> 0] : b \in {"add_meas", "add_another_child", "sex_male"}} \cup
    {[d |-> "select_child_", id |-> k] : k \in 1..MaxChildren}
ChatProvider == {[raised |-> FALSE, z |-> -25]}

InitChats ==
    /\ conv = [c \in Chats |-> [u \in Users |-> "END"]]
    /\ user_data = [u \in Users |-> EmptyData]
    /\ users = {1}
    /\ children = <<[age_months |-> 60, user_id |-> 1, sex |-> "male",
                     child_name |-> "name"]>>
    /\ measurements = << >>
    /\ reply = NoReply
    /\ last_call = NoCall
    /\ last_text = NoText
    /\ fn_pc = "idle"
    /\ fn_in = NoInput
    /\ fn_out = NoOutput

NextChats ==
    \E c \in Chats, u \in SoloUsers :
        \/ \E data \in ChatButtons :
              \/ entry_point(c, u, data)
              \/ fallback(c, u, data)
              \/ global_button(c, u, data)
              \/ register_sex(c, u, data)
        \/ register_child_name(c, u, Word)
        \/ register_age(c, u, Digits(0))
        \/ input_weight(c, u, Digits(50))
        \/ \E prov \in ChatProvider : input_height(c, u, Digits(150), prov)
        \/ \E prov \in ChatProvider : input_muac(c, u, Digits(114), prov)

SpecChats == InitChats /\ [][NextChats]_vars

\* Two caregivers, each in the private chat with the bot (the chat id of a
\* private chat is the user's id), whose updates interleave.  Both have
\* registered: caregiver 1 has a child of 60 months, caregiver 2 one of 0
\* months.
DuoButtons ==
    {[d |-> b, id |-> 0] : b \in {"add_meas", "summarize", "back_main"}} \cup
    {[d |-> "select_child_", id |-> k] : k \in 1..MaxChildren}
DuoMuacTexts == {Digits(114), Digits(130)}

InitDuo ==
    /\ conv = [c \in Chats |-> [u \in Users |-> "END"]]
    /\ user_data = [u \in Users |-> EmptyData]
    /\ users = {1, 2}
    /\ children = <<[age_months |-> 60, user_id |-> 1, sex |-> "male",
                     child_name |-> "name"],
                    [age_months |-> 0, user_id |-> 2, sex |-> "female",
                     child_name |-> "name"]>>
    /\ measurements = << >>
    /\ reply = NoReply
    /\ last_call = NoCall
    /\ last_text = NoText
    /\ fn_pc = "idle"
    /\ fn_in = NoInput
    /\ fn_out = NoOutput

NextDuo ==
    \E u \in Users : \E c \in {u} :
        \/ \E data \in DuoButtons :
              \/ entry_point(c, u, data)
              \/ fallback(c, u, data)
              \/ global_button(c, u, data)
        \/ input_weight(c, u, Digits(50))
        \/ \E prov \in ProviderOutcomes : input_height(c, u, Digits(150), prov)
        \/ \E text \in DuoMuacTexts, prov \in ProviderOutcomes :
              input_muac(c, u, text, prov)

SpecDuo == InitDuo /\ [][NextDuo]_vars

\* The classifier alone: every input of the bounded sets, then one call
InitFn ==
    /\ conv = [c \in Chats |-> [u \in Users |-> "END"]]
    /\ user_data = [u \in Users |-> EmptyData]
    /\ users = {}
    /\ children = << >>
    /\ measurements = << >>
    /\ reply = NoReply
    /\ last_call = NoCall
    /\ last_text = NoText
    /\ fn_pc = "ready"
    /\ fn_in \in [muac : FnMuacs, muac2 : FnMuacs, bmi_z : FnZs, age_months : FnAges]
    /\ fn_out = NoOutput

NextFn == Classify

SpecFn == InitFn /\ [][NextFn]_vars

(***************************************************************************)
(* Properties of get_status, checked under SpecFn                          *)
(***************************************************************************)
\* The tiers as the specification words them
SpecMuacTier(muac) ==
    IF IsNum(muac) /\ muac.v < 115 THEN "SAM"
    ELSE IF IsNum(muac) /\ 115 <= muac.v /\ muac.v < 125 THEN "MAM"
    ELSE "NORMAL"
SpecZTier(z) ==
    IF z = None THEN "NORMAL"
    ELSE IF z.v <= -30 THEN "SAM"
    ELSE IF -30 < z.v /\ z.v < -20 THEN "MAM"
    ELSE "NORMAL"
Rank(s) == IF s = "SAM" THEN 2 ELSE IF s = "MAM" THEN 1 ELSE 0
Worse(a, b) == IF Rank(a) >= Rank(b) THEN a ELSE b

Done == fn_pc = "done"

\* C1: for every age_months >= 6, every present MUAC and every z-score (a
\* number or absent), get_status returns the worse of the MUAC tier and the
\* z-score tier under SAM > MAM > NORMAL.
C1_WorstOfTiers ==
    (Done /\ fn_in.age_months >= 6 /\ fn_in.muac # None)
        => fn_out.status = Worse(SpecMuacTier(fn_in.muac), SpecZTier(fn_in.bmi_z))

\* MUAC tier MAM and z-score tier SAM at 24 months: SAM wins
C1_Witness ==
    /\ Done
    /\ fn_in.age_months = 24
    /\ fn_in.muac = Num(118)
    /\ fn_in.bmi_z = Num(-31)
    /\ fn_out.status = "SAM"

\* C2: for every age_months < 6 and every z-score, two runs of get_status that
\* differ only in MUAC (a number, NaN or absent) return the same status.
C2_MuacIgnoredUnder6 ==
    (Done /\ fn_in.age_months < 6) => fn_out.status = fn_out.status2

\* a SAM-tier MUAC against an absent one at 3 months: both runs give the z tier
C2_Witness ==
    /\ Done
    /\ fn_in.age_months = 3
    /\ fn_in.muac = Num(110)
    /\ fn_in.muac2 = None
    /\ fn_in.bmi_z = Num(-25)
    /\ fn_out.status = "MAM"
    /\ fn_out.status2 = "MAM"

\* the other indicator gives no worse a tier than t
ZAtMost(z, t) == Rank(SpecZTier(z)) <= Rank(t)
MuacNormalOrUnused(muac, age_months) ==
    age_months < 6 \/ (muac # None /\ SpecMuacTier(muac) = "NORMAL")

\* C3: the boundaries of get_status: MUAC exactly 115 gives MAM (not SAM) and
\* exactly 125 gives NORMAL (not MAM); a z-score of exactly -3 gives SAM and
\* exactly -2 gives NORMAL, in both age bands.
C3_Boundaries ==
    Done =>
        /\ (fn_in.age_months >= 6 /\ fn_in.muac = Num(115) /\ ZAtMost(fn_in.bmi_z, "MAM"))
              => fn_out.status = "MAM"
        /\ (fn_in.age_months >= 6 /\ fn_in.muac = Num(125) /\ ZAtMost(fn_in.bmi_z, "NORMAL"))
              => fn_out.status = "NORMAL"
        /\ (fn_in.bmi_z = Num(-30) /\ (fn_in.age_months >= 6 => fn_in.muac # None))
              => fn_out.status = "SAM"
        /\ (fn_in.bmi_z = Num(-20) /\ MuacNormalOrUnused(fn_in.muac, fn_in.age_months))
              => fn_out.status = "NORMAL"

\* MUAC exactly 115 with a z-score of exactly -2 at 6 months: MAM
C3_Witness ==
    /\ Done
    /\ fn_in.age_months = 6
    /\ fn_in.muac = Num(115)
    /\ fn_in.bmi_z = Num(-20)
    /\ fn_out.status = "MAM"

\* C5: with the z-score absent, get_status returns NORMAL for every
\* age_months < 6, and for every age_months >= 6 exactly the MUAC tier.
C5_AbsentZIsNormal ==
    (Done /\ fn_in.bmi_z = None) =>
        /\ fn_in.age_months < 6 => fn_out.status = "NORMAL"
        /\ (fn_in.age_months >= 6 /\ fn_in.muac # None)
              => fn_out.status = SpecMuacTier(fn_in.muac)

\* no z-score: NORMAL at 5 months, whatever the MUAC
C5_Witness ==
    /\ Done
    /\ fn_in.age_months = 5
    /\ fn_in.bmi_z = None
    /\ fn_in.muac = Num(110)
    /\ fn_out.status = "NORMAL"

\* C6: get_status is total on its precondition domain: for every age_months
\* in [0,60], every z-score and every MUAC that is present whenever
\* age_months >= 6, it returns a status and raises no error.
C6_Total ==
    (Done /\ fn_in.age_months \in 0..60 /\ (fn_in.age_months >= 6 => fn_in.muac # None))
        => fn_out.status \in Statuses

\* an absent MUAC under 6 months is in the domain and is classified
C6_Witness ==
    /\ Done
    /\ fn_in.age_months = 0
    /\ fn_in.muac = None
    /\ fn_in.bmi_z = Num(-32)
    /\ fn_out.status = "SAM"

\* C15: the two age branches of get_status use the same z-score tier: for
\* every z-score (a number or absent) the tier of the age < 6 branch
\* (`bmi_z <= -3` / `-3 < bmi_z < -2`) equals the tier of the age >= 6 branch
\* (`bmi_z <= -3` / `bmi_z < -2`).
C15_SameZTier ==
    Done => fn_out.z_under6 = fn_out.z_from6

\* z = -2 exactly, where an inclusive bound in one branch would show
C15_Witness ==
    /\ Done
    /\ fn_in.bmi_z = Num(-20)
    /\ fn_out.z_under6 = "NORMAL"
    /\ fn_out.z_from6 = "NORMAL"

(***************************************************************************)
(* Properties of the bot, checked under Spec                               *)
(***************************************************************************)
Last(seq) == seq[Len(seq)]

\* a step in which user u's input handler ran calculate_and_save to its end
SaveStep(c, u) ==
    /\ conv[c][u] \in {"INPUT_HEIGHT", "INPUT_MUAC"}
    /\ conv'[c][u] = "END"
    /\ last_call'.user = u
    /\ reply'.text \in {"Results", ErrorSavingText}

\* C4: when Calculator.bmifa raises during calculate_and_save, the failure is
\* not propagated: get_status is still called with the z-score absent, and a
\* Measurement is persisted with bmi_z absent and a status in {SAM, MAM, NORMAL}.
C4_ProviderFailureAbsorbed ==
    [][\A c \in Chats, u \in Users :
          (SaveStep(c, u) /\ last_call'.raised) =>
              /\ last_call'.called
              /\ last_call'.bmi_z = None
              /\ Len(measurements') = Len(measurements) + 1
              /\ Last(measurements').bmi_z = None
              /\ Last(measurements').status = last_call'.status
              /\ Last(measurements').status \in Statuses]_vars

\* the provider raised and a Measurement without z-score is in the table
C4_Witness ==
    /\ last_call.raised
    /\ last_call.called
    /\ measurements # << >>
    /\ Last(measurements).bmi_z = None
    /\ Last(measurements).muac = Num(114)
    /\ Last(measurements).status = "SAM"

\* C7: in every reachable state the status of every persisted Measurement is
\* one of SAM, MAM, NORMAL.
C7_StatusEnumerated ==
    \A i \in 1..Len(measurements) : measurements[i].status \in Statuses

\* two persisted measurements, one of them MAM
C7_Witness ==
    /\ Len(measurements) = 2
    /\ measurements[1].status = "MAM"
    /\ measurements[2].status \in Statuses

\* C8: whenever calculate_and_save has classified and persisted a measurement,
\* the reply carries the final status and the recommendation text that
\* RECOMMENDATIONS holds for that status.
C8_ReplyCarriesStatus ==
    [][\A c \in Chats, u \in Users :
          (SaveStep(c, u) /\ Len(measurements') = Len(measurements) + 1) =>
              /\ reply'.to = u
              /\ reply'.text = "Results"
              /\ reply'.status = Last(measurements').status
              /\ reply'.rec = RECOMMENDATIONS[Last(measurements').status]]_vars

InRange(x, hi) == IsNum(x) /\ 0 < x.v /\ x.v <= hi

\* C10: on every call of get_status from calculate_and_save, and on every
\* persisted Measurement, age_months is in [0,60], weight in (0,50], height in
\* (0,150], and MUAC, if present, in (0,300].
C10_PreconditionsEnforced ==
    /\ last_call.called =>
          /\ last_call.age_months \in 0..60
          /\ InRange(last_call.weight, 50)
          /\ InRange(last_call.height, 150)
          /\ last_call.muac # None => InRange(last_call.muac, 300)
    /\ \A i \in 1..Len(measurements) :
          /\ children[measurements[i].child_id].age_months \in 0..60
          /\ InRange(measurements[i].weight, 50)
          /\ InRange(measurements[i].height, 150)
          /\ measurements[i].muac # None => InRange(measurements[i].muac, 300)

\* C11: on every call of get_status that calculate_and_save makes for a child
\* of 6 months or more, the MUAC is present (the conversation has collected
\* it): the age >= 6 branch never receives an absent MUAC.
C11_MuacPresentFrom6 ==
    (last_call.called /\ last_call.age_months >= 6) => last_call.muac # None

\* get_status was called for a child of 60 months with the MUAC typed in
C11_Witness ==
    /\ last_call.called
    /\ last_call.age_months = 60
    /\ last_call.muac = Num(114)
    /\ last_call.status = "SAM"

\* C13: the measurement log is append-only and immutable: no step changes or
\* removes a persisted Measurement (weight, height, MUAC, z-score, status and
\* child stay as they are), and a step, hence a run of calculate_and_save,
\* adds at most one Measurement.
C13_AppendOnly ==
    [][/\ Len(measurements') \in {Len(measurements), Len(measurements) + 1}
       /\ \A i \in 1..Len(measurements) : measurements'[i] = measurements[i]]_vars

\* a second Measurement of the same child was added after the first
C13_Witness ==
    /\ Len(measurements) = 2
    /\ measurements[1].child_id = measurements[2].child_id
    /\ measurements[1].muac = Num(114)
    /\ measurements[2].muac = None
    /\ last_call.called

\* C16: in every reachable state the stored status of every persisted
\* Measurement m is get_status(m.muac, m.bmi_z, age_months of m's child).
C16_StoredStatusIsClassification ==
    \A i \in 1..Len(measurements) :
        measurements[i].status =
            get_status(measurements[i].muac, measurements[i].bmi_z,
                       children[measurements[i].child_id].age_months)

\* C17: if the reply to the final measurement input is the failure message
\* "Error saving measurement. Please try again.", that run of
\* calculate_and_save added no Measurement.
C17_FailureAddsNothing ==
    [][\A c \in Chats, u \in Users :
          (SaveStep(c, u) /\ reply'.text = ErrorSavingText) =>
              measurements' = measurements]_vars

\* the text is a number n with lo < n <= hi
NumberWithin(text, lo, hi) == text.k = "digits" /\ lo < text.v /\ text.v <= hi

\* the update just handled was a text that the handler of state st, which
\* writes user_data[key], had to reject; it left everything as it was
RejectedWithoutEffect(c, u, st, key, lo, hi) ==
    (conv[c][u] = st /\ last_text' # NoText /\ ~NumberWithin(last_text', lo, hi)) =>
        /\ conv'[c][u] = st
        /\ user_data'[u][key] = user_data[u][key]
        /\ children' = children
        /\ measurements' = measurements

\* C20: when register_age, input_weight, input_height or input_muac receives a
\* text that is not a number in the allowed range ([0,60], (0,50], (0,150],
\* (0,300]), the conversation stays in its state, the user_data entry of the
\* handler is not written and no Child or Measurement is persisted.
C20_InvalidInputRejected ==
    [][\A c \in SoloChats, u \in SoloUsers :
          /\ RejectedWithoutEffect(c, u, "REGISTER_AGE", "age_months", -1, 60)
          /\ RejectedWithoutEffect(c, u, "INPUT_WEIGHT", "weight", 0, 50)
          /\ RejectedWithoutEffect(c, u, "INPUT_HEIGHT", "height", 0, 150)
          /\ RejectedWithoutEffect(c, u, "INPUT_MUAC", "muac", 0, 300)]_vars

(***************************************************************************)
(* Properties of the bot when a caregiver uses two chats (SpecChats)       *)
(***************************************************************************)
\* C12: in every reachable state, every persisted Measurement that belongs to
\* a child with age_months < 6 has MUAC absent.
C12_NoMuacUnder6 ==
    \A i \in 1..Len(measurements) :
        children[measurements[i].child_id].age_months < 6 =>
            measurements[i].muac = None

InputStates == {"INPUT_WEIGHT", "INPUT_HEIGHT", "INPUT_MUAC"}

\* C18: from the moment the add-measurement flow enters INPUT_WEIGHT until the
\* save, no update (a button taken by the global button_handler included)
\* changes user_data['child_id']: while a conversation of user u stays in the
\* input states, the entry keeps its value.
C18_ChildKeptDuringInput ==
    [][\A c \in Chats, u \in Users :
          (conv[c][u] \in InputStates /\ conv'[c][u] \in InputStates) =>
              user_data'[u]["child_id"] = user_data[u]["child_id"]]_vars

(***************************************************************************)
(* Properties of the bot with two caregivers (SpecDuo)                     *)
(***************************************************************************)
\* the MUAC user u has entered in the step: the text just typed in
\* INPUT_MUAC, none in INPUT_HEIGHT
OwnMuac(c, u) ==
    IF conv[c][u] = "INPUT_MUAC" THEN py_float(last_text') ELSE None

\* C14: when the measurement flows of two users interleave in any order, the
\* status a user's measurement gets is the status get_status returns for
\* that user's own MUAC, z-score and age (the age of the user's own child):
\* no input of the other user enters it.
C14_OwnInputsOnly ==
    [][\A c \in Chats, u \in Users :
          (SaveStep(c, u) /\ Len(measurements') = Len(measurements) + 1) =>
              LET m == Last(measurements') IN
                  /\ OwnChild(u, m.child_id)
                  /\ last_call'.muac = OwnMuac(c, u)
                  /\ m.status = get_status(OwnMuac(c, u), last_call'.bmi_z,
                                           children[m.child_id].age_months)]_vars

\* user 2's save was the last step, made while user 1's flow was waiting in
\* INPUT_MUAC with its own entries intact
C14_Witness ==
    /\ reply = ErrorSaving(2)
    /\ last_call.user = 2
    /\ Last(measurements).child_id = 2
    /\ Last(measurements).status = "NORMAL"
    /\ conv[1][1] = "INPUT_MUAC"
    /\ user_data[1]["child_id"] = Num(1)
    /\ user_data[1]["height"] = Num(150)

\* C19: in every reachable state user_data['child_id'], when set, refers to a
\* Child owned by the user whose user_data it is, and the Measurement a run
\* of calculate_and_save works on belongs to a child of the user who ran it.
C19_OwnChildrenOnly ==
    /\ \A u \in Users :
          user_data[u]["child_id"] # Absent => OwnChild(u, user_data[u]["child_id"].v)
    /\ last_call.called => children[last_call.child_id].user_id = last_call.user

\* user 2 pressed the select button of user 1's child and was turned down,
\* while user 1 has the own child selected
C19_Witness ==
    /\ reply = Msg(2, "Child not found or does not belong to you")
    /\ user_data[2]["child_id"] = Absent
    /\ user_data[1]["child_id"] = Num(1)

(***************************************************************************)
(* Properties of summarize and of the prompts, checked under Spec          *)
(***************************************************************************)
\* the replies of the summarize branch of handle_action (lines 208-230)
SummarizeTexts == {"Summary", "Summary: no measurements yet", "Error fetching summary"}

\* C23: summarize for a child that has at least one persisted Measurement
\* replies with a summary whose latest status is the status of the last
\* measurement in the child's log, followed by the recommendation for that
\* status; it does not reply with the failure message "Error fetching summary".
C23_SummaryOfHistory ==
    [][\A u \in Users :
          (/\ reply'.to = u
           /\ reply'.text \in SummarizeTexts
           /\ HasChild(user_data'[u]["child_id"])
           /\ MeasurementsOf(user_data'[u]["child_id"].v) # << >>) =>
              LET meas == MeasurementsOf(user_data'[u]["child_id"].v) IN
                  /\ reply'.text = "Summary"
                  /\ reply'.status = Last(meas).status
                  /\ reply'.rec = RECOMMENDATIONS[Last(meas).status]]_vars

\* C22: whenever button_handler or handle_action has sent a prompt for a text
\* ("Enter your name (caregiver)", "Enter child name", "Enter weight"), the
\* state of the conversation that handles the user's next text is the
\* matching one (REGISTER_CAREGIVER, REGISTER_CHILD_NAME, INPUT_WEIGHT), also
\* when the button was taken by the global CallbackQueryHandler.
C22_PromptMatchesState ==
    \A c \in SoloChats, u \in SoloUsers :
        reply.to = u =>
            /\ reply.text = "Enter your name (caregiver)" => conv[c][u] = "REGISTER_CAREGIVER"
            /\ reply.text = "Enter child name" => conv[c][u] = "REGISTER_CHILD_NAME"
            /\ reply.text = "Enter weight" => conv[c][u] = "INPUT_WEIGHT"

\* the conversation of user u in chat c moves into state st
Enters(c, u, st) == conv[c][u] # st /\ conv'[c][u] = st

\* the age of the child user u has selected
SelectedAge(u) == children[user_data[u]["child_id"].v].age_months

\* the steps of a flow come in order, each with a valid entry
FlowInOrder(c, u) ==
    /\ Enters(c, u, "INPUT_WEIGHT") =>
          /\ conv[c][u] = "END"
          /\ HasChild(user_data'[u]["child_id"])
    /\ Enters(c, u, "INPUT_HEIGHT") =>
          /\ conv[c][u] = "INPUT_WEIGHT"
          /\ NumberWithin(last_text', 0, 50)
          /\ user_data'[u]["weight"] = Num(last_text'.v)
    /\ Enters(c, u, "INPUT_MUAC") =>
          /\ conv[c][u] = "INPUT_HEIGHT"
          /\ NumberWithin(last_text', 0, 150)
          /\ user_data'[u]["height"] = Num(last_text'.v)
          /\ SelectedAge(u) >= 6

\* what the flow has accepted stays as it is until the flow ends
FlowKeepsEntries(c, u) ==
    /\ (conv[c][u] \in InputStates /\ conv'[c][u] \in InputStates) =>
          user_data'[u]["child_id"] = user_data[u]["child_id"]
    /\ (conv[c][u] \in {"INPUT_HEIGHT", "INPUT_MUAC"}
        /\ conv'[c][u] \in {"INPUT_HEIGHT", "INPUT_MUAC"}) =>
          user_data'[u]["weight"] = user_data[u]["weight"]
    /\ (conv[c][u] = "INPUT_MUAC" /\ conv'[c][u] = "INPUT_MUAC") =>
          user_data'[u]["height"] = user_data[u]["height"]

\* the Measurement m added by the step is the one of the flow of u in c
SavesFlow(c, u, m) ==
    /\ conv'[c][u] = "END"
    /\ HasChild(user_data[u]["child_id"])
    /\ m.child_id = user_data[u]["child_id"].v
    /\ m.weight = user_data[u]["weight"]
    /\ \/ /\ conv[c][u] = "INPUT_HEIGHT"
          /\ SelectedAge(u) < 6
          /\ NumberWithin(last_text', 0, 150)
          /\ m.height = Num(last_text'.v)
          /\ m.muac = None
       \/ /\ conv[c][u] = "INPUT_MUAC"
          /\ SelectedAge(u) >= 6
          /\ m.height = user_data[u]["height"]
          /\ NumberWithin(last_text', 0, 300)
          /\ m.muac = Num(last_text'.v)

\* C21: a Measurement is persisted only after the steps of one
\* add-measurement flow happened in order: a child was selected, then a valid
\* weight was accepted in INPUT_WEIGHT, then a valid height in INPUT_HEIGHT,
\* then (only for a child of 6 months or more) a valid MUAC in INPUT_MUAC;
\* the persisted weight, height and MUAC are the values accepted in that flow.
C21_SavedAfterOrderedFlow ==
    [][/\ \A c \in Chats, u \in Users : FlowInOrder(c, u) /\ FlowKeepsEntries(c, u)
       /\ measurements' # measurements =>
             \E c \in Chats, u \in Users : SavesFlow(c, u, Last(measurements'))]_vars

====
